---- MODULE Spec2Model ----
(***************************************************************************)
(* A model of the connection engine of wayland/client.py: the Display      *)
(* object (id allocation, live table, dead list, decoder, outbound queue,  *)
(* dispatch loop), the Registry, and the few proxies needed to drive them   *)
(* (Callback, Compositor, Surface).                                         *)
(*                                                                         *)
(* The Display's attributes are the variables below.  Methods are written   *)
(* as operators over a record `d` holding those attributes ("self"), so     *)
(* that a method that calls another method is one operator applied inside   *)
(* another, and an action is a whole call made by the application.          *)
(***************************************************************************)
EXTENDS Integers, Sequences, FiniteSets, TLC

(***************************************************************************)
(* Bounds of the model.                                                     *)
(***************************************************************************)
\* ids the counter iter(range(1, 0xffffffff)) may hand out in a run
MaxId == 5
\* sends that fail (would-block or error) in a run
MaxSendFail == 1
\* longest accepted prefix of a payload in a partial send
MaxPartial == 2
\* frames in a stream given to the decoder
MaxStream == 2
\* events the peer writes on its own account
MaxFds == 3
MaxEvents == 5

VARIABLES
    pc,             \* "new" before Display.__init__ ran, "ready" between
                    \* calls, else the call in progress: "init_dispatch",
                    \* "init_roundtrip" (lines 56, 57), "roundtrip"
    dpc,            \* the place in Display.dispatch: "idle" outside it,
                    \* "flush" at its start, "recv" in its while loop,
                    \* "returned" when it has returned to its caller
    rt,             \* the id of the callback of the roundtrip in progress
    calls,          \* dispatch calls made by the roundtrip in progress
    waiting,        \* callbacks whose handle_done is a roundtrip's done
    fired,          \* callbacks on which that done has run (ready = True)
    active,         \* the handler calls in progress, the innermost last,
                    \* each with the place it is at in its dispatch call
    ids,            \* the next value of self.ids
    open_ids,       \* self.open_ids
    objects,        \* self.objects: id -> class of the proxy
    dead_objects,   \* self.dead_objects (a list: an id may occur twice)
    out_queue,      \* self.out_queue: entries [data, fds, n]
    event_queue,    \* self.event_queue
    incoming_fds,   \* self.incoming_fds
    previous_data,  \* self.previous_data
    globals,        \* self.globals: interface -> proxy or list of proxies
    global_objects, \* self.registry.global_objects: name -> id
    connected,      \* the socket is open
    raised,         \* exception that left the last call, "none" if it returned
    wire,           \* bytes written by the peer and not yet received
    sock,           \* bytes the socket accepted from sendmsg/send, in order
    sock_fds,       \* descriptors the socket accepted, in order
    peer_sent,      \* the peer: what it has written so far
    peer_log,       \* the peer: its writes in order, each with its offset
    peer_globals,   \* the peer: the globals it has, (name, interface)
    send_fails,     \* number of failed sends
    issued,         \* history: the values returned by next_id, in order,
                    \*          each with the number of frees before it
    early,          \* history: ids next_id returned while they were unacked
    frees,          \* history: number of deletion acknowledgments handled
    unacked,        \* history: ids passed to remove_object by a destroy
                    \*          request and not yet acknowledged
    enqueued,       \* history: the entries ever appended to out_queue
    queued,         \* history: the frames decode made events of, with the
                    \*          events appended to event_queue
    handled,        \* history: the handler calls of dispatch_pending
    sends,          \* history: the send attempts of flush, entry by entry
    received,       \* history: the bytes recvmsg has returned
    last            \* history: the last call and what it was given

vars == <<pc, dpc, rt, calls, peer_log, peer_globals, waiting, fired, active,
          queued, handled, ids, open_ids, objects, dead_objects, out_queue, event_queue,
          incoming_fds, previous_data, globals, global_objects, connected,
          raised, wire, sock, sock_fds, peer_sent, send_fails, issued,
          early, frees, unacked, enqueued, sends, received, last>>

(***************************************************************************)
(* Bytes.  struct.pack/unpack "I" on the native (little-endian) layout.     *)
(***************************************************************************)
Min(a, b) == IF a < b THEN a ELSE b
Max(a, b) == IF a > b THEN a ELSE b

\* data[lo:hi] of Python for 0 <= lo, 0 <= hi
Slice(data, lo, hi) ==
    IF lo >= Min(hi, Len(data)) THEN <<>>
    ELSE SubSeq(data, lo + 1, Min(hi, Len(data)))

\* data[lo:]
From(data, lo) == Slice(data, lo, Len(data))

\* struct.pack("I", n)
PackI(n) == << n % 256, (n \div 256) % 256, (n \div 65536) % 256,
               (n \div 16777216) % 256 >>

\* struct.unpack("I", b)[0] for the four bytes b
UnpackI(b) == b[1] + 256 * b[2] + 65536 * b[3] + 16777216 * b[4]

\* where the calls in progress are, and what the peer has
ctl == <<pc, dpc, rt, calls>>
peer == <<peer_sent, peer_log, peer_globals>>

(***************************************************************************)
(* The Display as a record ("self").                                        *)
(***************************************************************************)
Self ==
    [ ids |-> ids, open_ids |-> open_ids, objects |-> objects,
      dead_objects |-> dead_objects, out_queue |-> out_queue,
      event_queue |-> event_queue, incoming_fds |-> incoming_fds,
      previous_data |-> previous_data, globals |-> globals,
      global_objects |-> global_objects, connected |-> connected,
      raised |-> "none", capped |-> FALSE, sock |-> sock,
      sock_fds |-> sock_fds,
      issued |-> issued, early |-> early, frees |-> frees,
      unacked |-> unacked, enqueued |-> enqueued, sends |-> sends,
      waiting |-> waiting, fired |-> fired, queued |-> queued,
      handled |-> handled, active |-> active ]

\* the attributes after a call that left the Display as d
Becomes(d) ==
    /\ ~d.capped
    /\ ids' = d.ids
    /\ open_ids' = d.open_ids
    /\ objects' = d.objects
    /\ dead_objects' = d.dead_objects
    /\ out_queue' = d.out_queue
    /\ event_queue' = d.event_queue
    /\ incoming_fds' = d.incoming_fds
    /\ previous_data' = d.previous_data
    /\ globals' = d.globals
    /\ global_objects' = d.global_objects
    /\ connected' = d.connected
    /\ raised' = d.raised
    /\ sock' = d.sock
    /\ sock_fds' = d.sock_fds
    /\ issued' = d.issued
    /\ early' = d.early
    /\ frees' = d.frees
    /\ unacked' = d.unacked
    /\ enqueued' = d.enqueued
    /\ sends' = d.sends
    /\ waiting' = d.waiting
    /\ fired' = d.fired
    /\ queued' = d.queued
    /\ handled' = d.handled
    /\ active' = d.active

\* a proxy object: WaylandObject.__init__(self, display, obj_id)
Proxy(cls, obj_id) == [cls |-> cls, obj_id |-> obj_id]

\* del that leaves the entry in place
DictDel_keep(f, k) == f

\* dict assignment and deletion on self.objects
DictSet(f, k, v) == (k :> v) @@ f
DictDel(f, k) == [x \in (DOMAIN f) \ {k} |-> f[x]]

\* list.remove(x): drops the first occurrence
RECURSIVE ListRemove(_, _)
ListRemove(s, x) ==
    IF s = <<>> THEN <<>>
    ELSE IF Head(s) = x THEN Tail(s)
    ELSE <<Head(s)>> \o ListRemove(Tail(s), x)

InList(s, x) == \E i \in 1..Len(s) : s[i] = x

Raise(d, e) == [d EXCEPT !.raised = e]

(***************************************************************************)
(* Requests on the wire: WaylandObject.pack_arguments (wayland/base.py)     *)
(* gives the 8-byte header followed by the arguments.                       *)
(***************************************************************************)
\* struct.pack("II", obj_id, (size << 16) | op) for size and op in
\* 0..65535: op is the low half of the second word, size its high half
\* (written on the bytes: the word itself can exceed the integers here)
Header(obj_id, size, op) ==
    PackI(obj_id) \o << op % 256, (op \div 256) % 256,
                        size % 256, (size \div 256) % 256 >>

pack_arguments(obj_id, op, args) == Header(obj_id, 8 + Len(args), op) \o args

\* a request that is written to the socket as soon as it is packed
Enqueue_written(d, data, fds) ==
    LET e == [data |-> data, fds |-> fds, n |-> Len(d.enqueued) + 1]
    IN  [d EXCEPT !.sock = @ \o data, !.sock_fds = @ \o fds,
                  !.enqueued = Append(@, e)]

\* self.display.out_queue.append((data, fds)); n numbers the entries
Enqueue(d, data, fds) ==
    LET e == [data |-> data, fds |-> fds, n |-> Len(d.enqueued) + 1]
    IN  [d EXCEPT !.out_queue = Append(@, e), !.enqueued = Append(@, e)]

(***************************************************************************)
(* Display.next_id                                                          *)
(***************************************************************************)
\* history: next_id returned id
Issue(d, id) ==
    [d EXCEPT !.issued = Append(@, [id |-> id, frees |-> d.frees]),
              !.early = @ \cup ({id} \cap d.unacked)]

\* next_id drawing from the counter without advancing it
next_id_stuck(d) ==
    IF d.open_ids # <<>>
    THEN [id |-> Head(d.open_ids),
          d |-> Issue([d EXCEPT !.open_ids = Tail(@)], Head(d.open_ids))]
    ELSE IF Len(d.issued) >= MaxId
    THEN [id |-> 0, d |-> [d EXCEPT !.capped = TRUE]]
    ELSE [id |-> d.ids, d |-> Issue(d, d.ids)]

\* next_id with a counter that starts one lower: range(0, ...) instead of range(1, ...)
next_id_from_zero(d) ==
    IF d.ids > MaxId
    THEN [id |-> 0, d |-> [d EXCEPT !.capped = TRUE]]
    ELSE [id |-> d.ids - 1, d |-> Issue([d EXCEPT !.ids = @ + 1], d.ids - 1)]

next_id(d) ==
    IF d.open_ids # <<>>
    THEN [id |-> Head(d.open_ids),
          d |-> Issue([d EXCEPT !.open_ids = Tail(@)], Head(d.open_ids))]
    ELSE IF d.ids > MaxId
    THEN [id |-> 0, d |-> [d EXCEPT !.capped = TRUE]]
    ELSE [id |-> d.ids, d |-> Issue([d EXCEPT !.ids = @ + 1], d.ids)]

\* self.obj_id of the Display: what next_id gave to WaylandObject.__init__
SelfId(d) == d.issued[1].id

(***************************************************************************)
(* Requests that create an object: allocate, register, enqueue.             *)
(***************************************************************************)
NewObject(d, cls, sender, op, args, fds) ==
    LET r == next_id(d)
        d1 == [r.d EXCEPT !.objects = DictSet(@, r.id, cls)]
    IN  Enqueue(d1, pack_arguments(sender, op, PackI(r.id) \o args), fds)

\* Display.sync
sync(d) == NewObject(d, "Callback", SelfId(d), 0, <<>>, <<>>)

\* Display.get_registry
get_registry(d) == NewObject(d, "Registry", SelfId(d), 1, <<>>, <<>>)

\* Compositor.create_surface, on the compositor proxy with id c
create_surface(d, c) == NewObject(d, "Surface", c, 0, <<>>, <<>>)

\* Shm.create_pool, on the shm proxy with id s
create_pool(d, s, fd, size) ==
    NewObject(d, "ShmPool", s, 0, PackI(size), <<fd>>)

\* Seat.get_keyboard, on the seat proxy with id s
get_keyboard(d, s) == NewObject(d, "Keyboard", s, 1, <<>>, <<>>)

\* DataDeviceManager.create_data_source, on the manager proxy with id m
create_data_source(d, m) == NewObject(d, "DataSource", m, 0, <<>>, <<>>)

\* DataDeviceManager.get_data_device, on the manager proxy with id m
get_data_device(d, m, seat) ==
    NewObject(d, "DataDevice", m, 1, PackI(seat), <<>>)

(***************************************************************************)
(* Display.remove_object / Surface.destroy / Display.handle_delete_id       *)
(***************************************************************************)
\* remove_object putting the id on the free-list at once
remove_object_free(d, obj) ==
    [d EXCEPT !.dead_objects = Append(@, obj), !.open_ids = Append(@, obj)]

remove_object(d, obj) == [d EXCEPT !.dead_objects = Append(@, obj)]

\* Surface.destroy, on the surface proxy with id s
destroy(d, s) ==
    LET d1 == Enqueue(d, pack_arguments(s, 0, <<>>), <<>>)
    IN  [remove_object(d1, s) EXCEPT !.unacked = @ \cup {s}]

\* handle_delete_id that puts the id on the free-list before anything else
handle_delete_id_recycles(d, obj) ==
    LET d0 == [d EXCEPT !.open_ids = Append(@, obj)]
        d1 == IF obj \in DOMAIN d0.objects THEN remove_object(d0, obj) ELSE d0
    IN  IF ~InList(d1.dead_objects, obj) THEN Raise(d1, "ValueError")
        ELSE LET d2 == [d1 EXCEPT !.dead_objects = ListRemove(@, obj)]
             IN  IF obj \notin DOMAIN d2.objects THEN Raise(d2, "KeyError")
                 ELSE [d2 EXCEPT !.objects = DictDel(@, obj),
                                 !.unacked = @ \ {obj},
                                 !.frees = @ + 1]

handle_delete_id(d, obj) ==
    LET d1 == IF obj \in DOMAIN d.objects THEN remove_object(d, obj) ELSE d
    IN  IF ~InList(d1.dead_objects, obj) THEN Raise(d1, "ValueError")
        ELSE LET d2 == [d1 EXCEPT !.dead_objects = ListRemove(@, obj)]
             IN  IF obj \notin DOMAIN d2.objects THEN Raise(d2, "KeyError")
                 ELSE [d2 EXCEPT !.objects = DictDel(@, obj),
                                 !.unacked = @ \ {obj},
                                 !.frees = @ + 1]

(***************************************************************************)
(* Events.  An entry of event_queue is what unpack_event returned: the      *)
(* tuple (proxy, opcode, arguments), or None.                               *)
(***************************************************************************)
None == [none |-> TRUE]

Event(obj, op, args) == [obj |-> obj, event |-> op, args |-> args]

\* the interfaces of known_globals the model carries, as the bytes of
\* their names: "wl_compositor", "wl_shm", "wl_seat" and
\* "wl_data_device_manager"
WlCompositor == <<119, 108, 95, 99, 111, 109, 112, 111, 115, 105, 116, 111, 114>>
WlShm == <<119, 108, 95, 115, 104, 109>>
WlSeat == <<119, 108, 95, 115, 101, 97, 116>>
WlDataDeviceManager ==
    <<119, 108, 95, 100, 97, 116, 97, 95, 100, 101, 118, 105, 99, 101, 95,
      109, 97, 110, 97, 103, 101, 114>>

\* self.global_templates
global_templates ==
    (WlCompositor :> "Compositor") @@ (WlShm :> "Shm") @@ (WlSeat :> "Seat")
    @@ (WlDataDeviceManager :> "DataDeviceManager")

\* obj.interface
interface_of(cls) ==
    CHOOSE i \in DOMAIN global_templates : global_templates[i] = cls

\* the events lists of the classes
events(cls) ==
    CASE cls = "Display" -> <<"error", "delete_id">>
      [] cls = "Registry" -> <<"global", "global_remove">>
      [] cls = "Callback" -> <<"done">>
      [] cls = "Compositor" -> <<>>
      [] cls = "Surface" -> <<"enter", "leave">>
      [] cls = "Shm" -> <<"format">>
      [] cls = "ShmPool" -> <<>>
      [] cls = "Seat" -> <<"capabilities", "name">>
      [] cls = "Keyboard" -> <<"keymap", "enter", "leave", "key",
                               "modifiers", "repeat_info">>
      [] cls = "DataDeviceManager" -> <<>>
      [] cls = "DataSource" -> <<"target", "send", "cancelled",
                                 "dnd_drop_performed", "dnd_finished",
                                 "action">>
      [] cls = "DataDevice" -> <<"data_offer", "enter", "leave", "motion",
                                 "drop", "selection">>
      [] cls = "DataOffer" -> <<"offer", "source_actions", "action">>

\* the result of an unpack_event call: the event and the Display after it
Unpacked(d, ev) == [d |-> d, ev |-> ev]

DisplayUnpack_op0(d, self, op, data) ==
    Unpacked(d, Event(self, 0, <<IF Len(data) < 4 THEN 0
                                 ELSE UnpackI(Slice(data, 0, 4)), 0, <<>>>>))

\* Display.unpack_event
DisplayUnpack(d, self, op, data) ==
    IF op = 0 THEN
        IF Len(data) < 12 THEN Unpacked(Raise(d, "struct.error"), None)
        ELSE LET object_id == UnpackI(Slice(data, 0, 4))
                 code == UnpackI(Slice(data, 4, 8))
                 length == UnpackI(Slice(data, 8, 12))
                 message == Slice(data, 12, length + 11)
             IN  Unpacked(d, Event(self, op, <<object_id, code, message>>))
    ELSE IF op = 1 THEN
        IF Len(data) # 4 THEN Unpacked(Raise(d, "struct.error"), None)
        ELSE Unpacked(d, Event(self, op, <<UnpackI(data)>>))
    ELSE Unpacked(d, None)

\* Registry.unpack_event
RegistryUnpack(d, self, op, data) ==
    IF op = 0 THEN
        IF Len(data) < 8 THEN Unpacked(Raise(d, "struct.error"), None)
        ELSE LET object_id == UnpackI(Slice(data, 0, 4))
                 length == UnpackI(Slice(data, 4, 8))
                 interface == Slice(data, 8, 7 + length)
                 version == UnpackI(From(data, Len(data) - 4))
             IN  Unpacked(d, Event(self, op, <<object_id, interface, version>>))
    ELSE IF op = 1 THEN
        IF Len(data) # 4 THEN Unpacked(Raise(d, "struct.error"), None)
        ELSE Unpacked(d, Event(self, op, <<UnpackI(data)>>))
    ELSE Unpacked(d, None)

\* Callback.unpack_event
CallbackUnpack(d, self, op, data) ==
    IF Len(data) # 4 THEN Unpacked(Raise(d, "struct.error"), None)
    ELSE Unpacked(d, Event(self, op, <<UnpackI(data)>>))

\* Surface.unpack_event
SurfaceUnpack(d, self, op, data) ==
    IF Len(data) # 4 THEN Unpacked(Raise(d, "struct.error"), None)
    ELSE LET o == UnpackI(data)
         IN  IF o \notin DOMAIN d.objects
             THEN Unpacked(Raise(d, "KeyError"), None)
             ELSE Unpacked(d, Event(self, op, <<Proxy(d.objects[o], o)>>))

\* struct.unpack of n unsigned words: data must be 4 * n bytes long
Words(data, n) == [i \in 1..n |-> UnpackI(Slice(data, 4 * (i - 1), 4 * i))]

\* struct.unpack("i", b)[0] for the four bytes b
UnpackSigned(b) ==
    b[1] + 256 * b[2] + 65536 * b[3]
    + 16777216 * (IF b[4] >= 128 THEN b[4] - 256 ELSE b[4])

\* x / 256, a float
Over256(x) == [num |-> x, den |-> 256]

\* fds.pop() instead of fds.pop(0)
PopFd_last(d) ==
    [fd |-> d.incoming_fds[Len(d.incoming_fds)],
     d |-> [d EXCEPT !.incoming_fds = SubSeq(@, 1, Len(@) - 1)]]

\* fds.pop(0) on a list that is not empty
PopFd(d) ==
    [fd |-> Head(d.incoming_fds), d |-> [d EXCEPT !.incoming_fds = Tail(@)]]

\* Seat.unpack_event
SeatUnpack(d, self, op, data) ==
    IF op = 0 THEN
        IF Len(data) # 4 THEN Unpacked(Raise(d, "struct.error"), None)
        ELSE Unpacked(d, Event(self, op, Words(data, 1)))
    ELSE IF op = 1 THEN
        IF Len(data) < 4 THEN Unpacked(Raise(d, "struct.error"), None)
        ELSE LET length == UnpackI(Slice(data, 0, 4))
             IN  Unpacked(d, Event(self, op, <<Slice(data, 4, 1 + length)>>))
    ELSE Unpacked(d, None)

\* Keyboard.unpack_event
KeyboardUnpack(d, self, op, data) ==
    IF op = 0 THEN
        IF Len(data) < 4 THEN Unpacked(Raise(d, "struct.error"), None)
        ELSE IF d.incoming_fds = <<>>
        THEN Unpacked(Raise(d, "IndexError"), None)
        ELSE LET p == PopFd(d)
             IN  IF Len(data) # 8
                 THEN Unpacked(Raise(p.d, "struct.error"), None)
                 ELSE Unpacked(p.d,
                          Event(self, op, <<UnpackI(Slice(data, 0, 4)), p.fd,
                                            UnpackI(Slice(data, 4, 8))>>))
    ELSE IF op = 1 THEN
        IF Len(data) < 12 THEN Unpacked(Raise(d, "struct.error"), None)
        ELSE LET w == Words(data, 3)
             IN  IF w[2] \notin DOMAIN d.objects
                 THEN Unpacked(Raise(d, "KeyError"), None)
                 ELSE Unpacked(d, Event(self, op,
                          <<w[1], Proxy(d.objects[w[2]], w[2]), <<>>>>))
    ELSE IF op \in {2, 3, 4} THEN
        IF Len(data) # 4 * op THEN Unpacked(Raise(d, "struct.error"), None)
        ELSE Unpacked(d, Event(self, op, Words(data, op)))
    ELSE IF op = 5 THEN
        IF Len(data) # 8 THEN Unpacked(Raise(d, "struct.error"), None)
        ELSE Unpacked(d, Event(self, op, <<UnpackSigned(Slice(data, 0, 4)),
                                           UnpackSigned(Slice(data, 4, 8))>>))
    ELSE Unpacked(d, None)

\* DataSource.unpack_event
DataSourceUnpack(d, self, op, data) ==
    IF op \in {0, 1} THEN
        IF Len(data) < 4 THEN Unpacked(Raise(d, "struct.error"), None)
        ELSE LET length == UnpackI(Slice(data, 0, 4))
                 mime == Slice(data, 4, length)
             IN  IF op = 0 THEN Unpacked(d, Event(self, op, <<mime>>))
                 ELSE IF d.incoming_fds = <<>>
                 THEN Unpacked(Raise(d, "IndexError"), None)
                 ELSE LET p == PopFd(d)
                      IN  Unpacked(p.d, Event(self, op, <<mime, p.fd>>))
    ELSE IF op \in {2, 3, 4} THEN Unpacked(d, Event(self, op, <<>>))
    ELSE IF op = 5 THEN
        IF Len(data) # 4 THEN Unpacked(Raise(d, "struct.error"), None)
        ELSE Unpacked(d, Event(self, op, Words(data, 1)))
    ELSE Unpacked(d, None)

\* DataOffer.unpack_event
DataOfferUnpack(d, self, op, data) ==
    IF op = 0 THEN
        IF Len(data) < 4 THEN Unpacked(Raise(d, "struct.error"), None)
        ELSE LET length == UnpackI(Slice(data, 0, 4))
             IN  Unpacked(d, Event(self, op, <<Slice(data, 4, 4 + length)>>))
    ELSE IF op \in {1, 2} THEN
        IF Len(data) # 4 THEN Unpacked(Raise(d, "struct.error"), None)
        ELSE Unpacked(d, Event(self, op, Words(data, 1)))
    ELSE Unpacked(d, None)

\* self.display.objects[data_offer.obj_id] = data_offer
Register(objs, id, cls) == DictSet(objs, id, cls)

\* DataDevice.unpack_event
DataDeviceUnpack(d, self, op, data) ==
    IF op = 0 THEN
        IF Len(data) # 4 THEN Unpacked(Raise(d, "struct.error"), None)
        ELSE LET data_offer == Proxy("DataOffer", UnpackI(data))
                 d1 == [d EXCEPT !.objects =
                           Register(@, data_offer.obj_id, data_offer.cls)]
             IN  Unpacked(d1, Event(self, op, <<data_offer>>))
    ELSE IF op = 1 THEN
        IF Len(data) # 20 THEN Unpacked(Raise(d, "struct.error"), None)
        ELSE LET w == Words(data, 5)
             IN  IF w[2] \notin DOMAIN d.objects \/ w[5] \notin DOMAIN d.objects
                 THEN Unpacked(Raise(d, "KeyError"), None)
                 ELSE Unpacked(d, Event(self, op,
                          <<w[1], Proxy(d.objects[w[2]], w[2]), Over256(w[3]),
                            Over256(w[4]), Proxy(d.objects[w[5]], w[5])>>))
    ELSE IF op \in {2, 4} THEN Unpacked(d, Event(self, op, <<>>))
    ELSE IF op = 3 THEN
        IF Len(data) # 12 THEN Unpacked(Raise(d, "struct.error"), None)
        ELSE LET w == Words(data, 3)
             IN  Unpacked(d, Event(self, op,
                                   <<w[1], Over256(w[2]), Over256(w[3])>>))
    ELSE IF op = 5 THEN
        IF Len(data) # 4 THEN Unpacked(Raise(d, "struct.error"), None)
        ELSE IF UnpackI(data) \notin DOMAIN d.objects
        THEN Unpacked(Raise(d, "KeyError"), None)
        ELSE Unpacked(d, Event(self, op,
                 Proxy(d.objects[UnpackI(data)], UnpackI(data))))
    ELSE Unpacked(d, None)

\* obj.unpack_event(op, data, self.incoming_fds)
unpack_event(d, obj_id, op, data) ==
    LET cls == d.objects[obj_id]
        self == Proxy(cls, obj_id)
    IN  CASE cls = "Display" -> DisplayUnpack(d, self, op, data)
          [] cls = "Registry" -> RegistryUnpack(d, self, op, data)
          [] cls = "Callback" -> CallbackUnpack(d, self, op, data)
          [] cls = "Surface" -> SurfaceUnpack(d, self, op, data)
          [] cls = "Seat" -> SeatUnpack(d, self, op, data)
          [] cls = "Keyboard" -> KeyboardUnpack(d, self, op, data)
          [] cls = "DataSource" -> DataSourceUnpack(d, self, op, data)
          [] cls = "DataDevice" -> DataDeviceUnpack(d, self, op, data)
          [] cls = "DataOffer" -> DataOfferUnpack(d, self, op, data)

(***************************************************************************)
(* Display.decode                                                           *)
(***************************************************************************)
\* size = sizeop >> 16 and op = sizeop & 0xFFFF of the header in data[:8],
\* sizeop being the little-endian word of data[4:8]: the shift keeps its two
\* high bytes, the mask its two low bytes
HeaderId(data) == UnpackI(Slice(data, 0, 4))
HeaderSize(data) == data[7] + 256 * data[8]

\* a mask of 0xFF instead of 0xFFFF
HeaderOp_byte(data) == data[5]

HeaderOp(data) == data[5] + 256 * data[6]

\* the while loop; gives the Display and the bytes left over.  A frame of
\* declared size 0 that is consumed leaves data as it was, and the loop
\* does not end: "hang".
IsDead_never(d, obj_id) == FALSE

\* obj_id in self.dead_objects
IsDead(d, obj_id) == InList(d.dead_objects, obj_id)

BadObject_ignored(d, data) == [d |-> d, data |-> data]

\* the frame is for an id in neither table: raise IOError
BadObject(d, data) == [d |-> Raise(d, "IOError"), data |-> data]

RECURSIVE DecodeLoop(_, _)
DecodeLoop(d, data) ==
    IF Len(data) < 8 THEN [d |-> d, data |-> data]
    ELSE LET obj_id == HeaderId(data)
             size == HeaderSize(data)
             op == HeaderOp(data)
         IN  IF Len(data) < size THEN [d |-> d, data |-> data]
             ELSE IF IsDead(d, obj_id) THEN
                 IF size = 0 THEN [d |-> Raise(d, "hang"), data |-> data]
                 ELSE DecodeLoop(d, From(data, size))
             ELSE IF obj_id \in DOMAIN d.objects THEN
                 LET u == unpack_event(d, obj_id, op, Slice(data, 8, size))
                     d1 == [u.d EXCEPT
                               !.event_queue = Append(@, u.ev),
                               !.queued = Append(@, [frame |-> Slice(data, 0, size),
                                                     ev |-> u.ev])]
                 IN  IF u.d.raised # "none" THEN [d |-> u.d, data |-> data]
                     ELSE IF size = 0
                     THEN [d |-> Raise(d1, "hang"), data |-> data]
                     ELSE DecodeLoop(d1, From(data, size))
             ELSE BadObject(d, data)

Buffered_alone(d, data) == data

\* what decode works on: self.previous_data + data
Buffered(d, data) ==
    IF d.previous_data # <<>> THEN d.previous_data \o data ELSE data

decode_drop(d, data) ==
    LET r == DecodeLoop(d, Buffered(d, data))
    IN  IF r.d.raised # "none" THEN r.d
        ELSE [r.d EXCEPT !.previous_data = <<>>]

\* Display.decode
decode(d, data) ==
    LET r == DecodeLoop(d, Buffered(d, data))
    IN  IF r.d.raised # "none" THEN r.d
        ELSE [r.d EXCEPT !.previous_data = r.data]

(***************************************************************************)
(* Display.recv.  res is what recvmsg did: [kind |-> "data", data, fds],    *)
(* [kind |-> "EAGAIN"] or [kind |-> "error"].                               *)
(***************************************************************************)
\* recv whose except clause raises again whatever the errno
recv_raises(d, res) ==
    IF res.kind \in {"EAGAIN", "error"} THEN Raise(d, "socket.error")
    ELSE LET d1 == [d EXCEPT !.incoming_fds = @ \o res.fds]
         IN  IF res.data # <<>> THEN decode(d1, res.data) ELSE d1

recv(d, res) ==
    IF res.kind = "EAGAIN" THEN d
    ELSE IF res.kind = "error" THEN Raise(d, "socket.error")
    ELSE LET d1 == [d EXCEPT !.incoming_fds = @ \o res.fds]
         IN  IF res.data # <<>> THEN decode(d1, res.data) ELSE d1

(***************************************************************************)
(* Handlers.                                                                *)
(***************************************************************************)
\* a string argument on the wire: length (with the NUL), bytes, NUL, padding
PackString(str) ==
    LET n == Len(str) + 1
        pad == (4 - (n % 4)) % 4
    IN  PackI(n) \o str \o [i \in 1..(1 + pad) |-> 0]

\* Display.disconnect
disconnect(d) == [d EXCEPT !.connected = FALSE]

\* Display.handle_error: ends in sys.exit()
handle_error(d, object_id, code, message) ==
    IF object_id \notin DOMAIN d.objects THEN Raise(d, "KeyError")
    ELSE Raise(disconnect(d), "SystemExit")

\* the value of a slot of self.globals: one proxy, or a list of proxies
One(obj) == [list |-> FALSE, items |-> <<obj>>]
Several(objs) == [list |-> TRUE, items |-> objs]

handle_global_pass(d, self, name, interface, version) == d

\* Registry.handle_global, on the registry proxy with id self
handle_global(d, self, name, interface, version) ==
    IF interface \in DOMAIN global_templates THEN
        LET r == next_id(d)
            new_id == r.id
            d1 == Enqueue(r.d, pack_arguments(self, 0,
                               PackI(name) \o PackString(interface)
                               \o PackI(version) \o PackI(new_id)), <<>>)
            obj == Proxy(global_templates[interface], new_id)
            slot == IF interface \in DOMAIN d1.globals
                    THEN Several((IF d1.globals[interface].list
                                  THEN d1.globals[interface].items
                                  ELSE <<d1.globals[interface].items[1]>>)
                                 \o <<obj>>)
                    ELSE One(obj)
        IN  [d1 EXCEPT !.global_objects = DictSet(@, name, new_id),
                       !.globals = DictSet(@, interface, slot),
                       !.objects = DictSet(@, new_id, obj.cls)]
    ELSE d

handle_global_remove_only_raises(d, name) ==
    IF name \notin DOMAIN d.global_objects THEN d
    ELSE Raise(d, "AttributeError")

\* Registry.handle_global_remove
handle_global_remove(d, name) ==
    IF name \notin DOMAIN d.global_objects THEN d
    ELSE LET id_num == d.global_objects[name]
         IN  IF id_num \notin DOMAIN d.objects THEN Raise(d, "KeyError")
             ELSE
             LET obj == Proxy(d.objects[id_num], id_num)
                 interface == interface_of(obj.cls)
                 d1 == IF interface \notin DOMAIN d.globals THEN d
                       ELSE LET slot == d.globals[interface]
                            IN  IF ~slot.list /\ slot.items[1] = obj
                                THEN [d EXCEPT !.globals = DictDel(@, interface)]
                                ELSE IF ~slot.list
                                THEN Raise(d, "AttributeError")
                                ELSE IF ~InList(slot.items, obj)
                                THEN Raise(d, "ValueError")
                                ELSE LET rest == ListRemove(slot.items, obj)
                                     IN  [d EXCEPT !.globals = DictSet(@, interface,
                                             IF Len(rest) = 1 THEN One(rest[1])
                                             ELSE Several(rest))]
             IN  IF d1.raised # "none" THEN d1
                 ELSE Raise(d1, "AttributeError")

handle_done_pass(d, self) == d

\* Callback.handle_done, or the done of the roundtrip that waits on the
\* callback
handle_done(d, self) ==
    IF self \in d.waiting THEN [d EXCEPT !.fired = @ \cup {self}] ELSE d

\* getattr(obj, "handle_" + obj.events[event])(*args)
Handle(d, ev) ==
    IF ev = None THEN Raise(d, "TypeError")
    ELSE IF ev.event + 1 > Len(events(ev.obj.cls)) THEN Raise(d, "IndexError")
    ELSE LET h == events(ev.obj.cls)[ev.event + 1]
             a == ev.args
             c == [d EXCEPT !.handled =
                      Append(@, [ev |-> ev, handler |-> h, args |-> a,
                                 dead |-> InList(d.dead_objects,
                                                 ev.obj.obj_id),
                                 depth |-> Len(d.active)])]
         IN  CASE ev.obj.cls = "Display" /\ h = "error" ->
                    handle_error(c, a[1], a[2], a[3])
               [] ev.obj.cls = "Display" /\ h = "delete_id" ->
                    handle_delete_id(c, a[1])
               [] ev.obj.cls = "Registry" /\ h = "global" ->
                    handle_global(c, ev.obj.obj_id, a[1], a[2], a[3])
               [] ev.obj.cls = "Registry" /\ h = "global_remove" ->
                    handle_global_remove(c, a[1])
               [] ev.obj.cls = "Callback" /\ h = "done" ->
                    handle_done(c, ev.obj.obj_id)
               [] ev.obj.cls = "Surface" -> c

Popped_last(d) ==
    [ev |-> d.event_queue[Len(d.event_queue)],
     d |-> [d EXCEPT !.event_queue = SubSeq(@, 1, Len(@) - 1)]]

\* self.event_queue.pop(0)
Popped(d) == [ev |-> Head(d.event_queue),
              d |-> [d EXCEPT !.event_queue = Tail(@)]]

\* Display.dispatch_pending
RECURSIVE dispatch_pending(_)
dispatch_pending(d) ==
    IF d.event_queue = <<>> THEN d
    ELSE LET p == Popped(d)
             d1 == Handle(p.d, p.ev)
         IN  IF d1.raised # "none" \/ d1.capped THEN d1
             ELSE dispatch_pending(d1)

(***************************************************************************)
(* Display.flush.  The sends of one call go well for the first k entries;   *)
(* fail says how the call ends on the entry after them: [kind |-> "none"]   *)
(* when the queue ran out, else kind "EAGAIN" or "error" raised by sendmsg  *)
(* (part = 0) or by a later send, after part bytes were accepted.           *)
(***************************************************************************)
Requeue_tail(queue, e) == Append(queue, e)

Requeue_drop(queue, e) == queue

\* self.out_queue.insert(0, (data, fds))
Requeue(queue, e) == <<e>> \o queue

\* a send error that is swallowed instead of raised again
reraise_swallowed(d) == d

\* the bare raise of flush's except clause, for an errno other than 11
reraise(d) == Raise(d, "socket.error")

RECURSIVE flush(_, _, _)
flush(d, k, fail) ==
    IF d.out_queue = <<>> THEN d
    ELSE LET e == Head(d.out_queue)
             d1 == [d EXCEPT !.out_queue = Tail(@)]
         IN  IF k > 0
             THEN flush([d1 EXCEPT
                           !.sock = @ \o e.data,
                           !.sock_fds = @ \o e.fds,
                           !.sends = Append(@, [n |-> e.n, whole |-> TRUE,
                                                len |-> Len(e.data)])],
                        k - 1, fail)
             ELSE LET d2 == [d1 EXCEPT
                               !.sock = @ \o Slice(e.data, 0, fail.part),
                               !.sock_fds = IF fail.part > 0 THEN @ \o e.fds
                                            ELSE @,
                               !.sends = Append(@, [n |-> e.n, whole |-> FALSE,
                                                    len |-> fail.part])]
                  IN  IF fail.kind = "EAGAIN"
                      THEN [d2 EXCEPT !.out_queue = Requeue(@, e)]
                      ELSE reraise(d2)

(***************************************************************************)
(* Display.roundtrip.  The nonlocal ready of a call is the membership of    *)
(* its callback in fired; l.handle_done = done puts the callback in         *)
(* waiting.                                                                 *)
(***************************************************************************)
\* roundtrip up to its while loop
roundtrip_begin(d) ==
    LET d1 == sync(d)
        l == d1.issued[Len(d1.issued)].id
    IN  [d1 EXCEPT !.waiting = @ \cup {l}]

ready_always(d, l) == TRUE

\* the test of the while loop: ready
ready(d, l) == l \in d.fired

(***************************************************************************)
(* The peer.  It answers the requests it has received: the get_registry     *)
(* request with the announcement of a global, a sync request with 'done'    *)
(* and the deletion of the callback, a destroy request with the deletion    *)
(* acknowledgment.                                                          *)
(***************************************************************************)
DeleteIdFrame(x) == Header(1, 12, 1) \o PackI(x)

GlobalFrame(reg, name, interface, version) ==
    LET args == PackI(name) \o PackString(interface) \o PackI(version)
    IN  Header(reg, 8 + Len(args), 0) \o args

EventFrame(x, op, arg) == Header(x, 12, op) \o PackI(arg)

\* the globals of the peer: (name, interface)
PeerGlobals == {<<1, WlCompositor>>, <<2, WlShm>>}

\* the request is still in out_queue
Pending(data) == \E i \in 1..Len(out_queue) : out_queue[i].data = data

\* the objects of a class in the live table
Live(cls) == {x \in DOMAIN objects : objects[x] = cls}

(***************************************************************************)
(* The state before Display.__init__, and the calls.                        *)
(***************************************************************************)
\* the attributes are those of d
Is(d) ==
    /\ ids = d.ids
    /\ open_ids = d.open_ids
    /\ objects = d.objects
    /\ dead_objects = d.dead_objects
    /\ out_queue = d.out_queue
    /\ event_queue = d.event_queue
    /\ incoming_fds = d.incoming_fds
    /\ previous_data = d.previous_data
    /\ globals = d.globals
    /\ global_objects = d.global_objects
    /\ connected = d.connected
    /\ raised = d.raised
    /\ sock = d.sock
    /\ sock_fds = d.sock_fds
    /\ issued = d.issued
    /\ early = d.early
    /\ frees = d.frees
    /\ unacked = d.unacked
    /\ enqueued = d.enqueued
    /\ sends = d.sends
    /\ waiting = d.waiting
    /\ fired = d.fired
    /\ queued = d.queued
    /\ handled = d.handled
    /\ active = d.active

\* nothing of the Display is set yet, but the counter and the free-list
New ==
    [ ids |-> 1, open_ids |-> <<>>, objects |-> <<>>, dead_objects |-> <<>>,
      out_queue |-> <<>>, event_queue |-> <<>>, incoming_fds |-> <<>>,
      previous_data |-> <<>>, globals |-> <<>>, global_objects |-> <<>>,
      connected |-> FALSE, raised |-> "none", capped |-> FALSE,
      sock |-> <<>>, sock_fds |-> <<>>, issued |-> <<>>, early |-> {},
      frees |-> 0, unacked |-> {}, enqueued |-> <<>>, sends |-> <<>>,
      waiting |-> {}, fired |-> {}, queued |-> <<>>, handled |-> <<>>,
      active |-> <<>> ]

\* Display.__init__ up to the get_registry request
init(d) ==
    LET r == next_id([d EXCEPT !.connected = TRUE])
        d1 == [r.d EXCEPT !.objects = (r.id :> "Display")]
    IN  get_registry(d1)

\* every send of a flush goes well
AllSent(d) == flush(d, Len(d.out_queue), [kind |-> "none", part |-> 0])

\* recvmsg gives data and no descriptor
Data(data) == [kind |-> "data", data |-> data, fds |-> <<>>]

Init ==
    /\ pc = "new"
    /\ Is(New)
    /\ wire = <<>>
    /\ peer_sent = {}
    /\ peer_log = <<>>
    /\ peer_globals = PeerGlobals
    /\ dpc = "idle"
    /\ rt = 0
    /\ calls = 0
    /\ send_fails = 0
    /\ received = <<>>
    /\ last = [op |-> "none"]

\* the application may make a call
Ready == pc = "ready" /\ raised = "none"

Construct ==
    /\ pc = "new"
    /\ Becomes(init(Self))
    /\ pc' = "ready"
    /\ last' = [op |-> "init"]
    /\ UNCHANGED <<dpc, rt, calls, peer, wire, send_fails, received>>

Sync ==
    /\ Ready
    /\ Becomes(sync(Self))
    /\ last' = [op |-> "sync"]
    /\ UNCHANGED <<ctl, peer, wire, send_fails, received>>

CreateSurface ==
    /\ Ready
    /\ \E c \in Live("Compositor") : Becomes(create_surface(Self, c))
    /\ last' = [op |-> "create_surface"]
    /\ UNCHANGED <<ctl, peer, wire, send_fails, received>>

Destroy ==
    /\ Ready
    /\ \E s \in Live("Surface") :
          /\ ~InList(dead_objects, s)
          /\ Becomes(destroy(Self, s))
          /\ last' = [op |-> "destroy", id |-> s]
    /\ UNCHANGED <<ctl, peer, wire, send_fails, received>>

\* the descriptors the application passes
AppFds == {7}

CreatePool ==
    /\ Ready
    /\ \E s \in Live("Shm"), fd \in AppFds :
          Becomes(create_pool(Self, s, fd, 4096))
    /\ last' = [op |-> "create_pool"]
    /\ UNCHANGED <<ctl, peer, wire, send_fails, received>>

\* flush, every send taking the payload whole
Flush ==
    /\ Ready
    /\ out_queue # <<>>
    /\ Becomes(AllSent(Self))
    /\ last' = [op |-> "flush", k |-> Len(out_queue), kind |-> "none",
                part |-> 0, queue |-> out_queue]
    /\ UNCHANGED <<ctl, peer, wire, send_fails, received>>

\* the lengths a payload may be cut at by a partial send
Parts(data) == 0..Min(MaxPartial, Len(data) - 1)

\* flush, a send failing
FlushFail ==
    /\ Ready
    /\ send_fails < MaxSendFail
    /\ \E k \in 0..(Len(out_queue) - 1), kind \in {"EAGAIN", "error"} :
         \E part \in Parts(out_queue[k + 1].data) :
            /\ Becomes(flush(Self, k, [kind |-> kind, part |-> part]))
            /\ last' = [op |-> "flush", k |-> k, kind |-> kind,
                        part |-> part, queue |-> out_queue]
    /\ send_fails' = send_fails + 1
    /\ UNCHANGED <<ctl, peer, wire, received>>

\* recv when recvmsg gives the first n bytes the peer wrote
RecvBytes(n) ==
    /\ Becomes(recv(Self, Data(Slice(wire, 0, n))))
    /\ wire' = From(wire, n)
    /\ received' = received \o Slice(wire, 0, n)
    /\ last' = [op |-> "recv", buf |-> Buffered(Self, Slice(wire, 0, n)),
                prev |-> previous_data, queue |-> event_queue,
                objects |-> objects]
    /\ UNCHANGED <<ctl, peer, send_fails>>

\* recvmsg gives all there is
Recv ==
    /\ Ready
    /\ wire # <<>>
    /\ RecvBytes(Len(wire))

\* recvmsg gives less
RecvShort ==
    /\ Ready
    /\ \E n \in 1..(Len(wire) - 1) : RecvBytes(n)

DispatchPending ==
    /\ Ready
    /\ event_queue # <<>>
    /\ Becomes(dispatch_pending(Self))
    /\ last' = [op |-> "dispatch_pending", queue |-> event_queue,
                pre |-> Self]
    /\ UNCHANGED <<ctl, peer, wire, send_fails, received>>

\* the peer writes the frames fs, once
PeerWrites(tag, fs) ==
    /\ pc # "new"
    /\ raised = "none"
    /\ <<"close", 0>> \notin peer_sent
    /\ tag \notin peer_sent
    /\ peer_sent' = peer_sent \cup {tag}
    /\ peer_log' = Append(peer_log, [tag |-> tag,
                                     start |-> Len(received) + Len(wire)])
    /\ wire' = wire \o fs
    /\ UNCHANGED <<ctl, peer_globals, waiting, fired, active, queued, handled, ids,
                   open_ids, objects, dead_objects, out_queue, event_queue,
                   incoming_fds, previous_data, globals, global_objects,
                   connected, raised, sock, sock_fds, send_fails, issued,
                   early, frees, unacked, enqueued, sends, received, last>>

PeerGlobal ==
    \E r \in Live("Registry"), g \in peer_globals :
        /\ ~Pending(pack_arguments(1, 1, PackI(r)))
        /\ PeerWrites(<<"global", g[1]>>, GlobalFrame(r, g[1], g[2], 1))

PeerDone ==
    \E x \in Live("Callback") :
        /\ ~Pending(pack_arguments(1, 0, PackI(x)))
        /\ PeerWrites(<<"done", x>>, EventFrame(x, 0, 0) \o DeleteIdFrame(x))

PeerDeleteId ==
    \E x \in Live("Surface") :
        /\ InList(dead_objects, x)
        /\ ~Pending(pack_arguments(x, 0, <<>>))
        /\ PeerWrites(<<"delete_id", x>>, DeleteIdFrame(x))

Next ==
    \/ Construct
    \/ Sync
    \/ CreateSurface
    \/ CreatePool
    \/ Destroy
    \/ Flush
    \/ Recv
    \/ DispatchPending
    \/ PeerGlobal
    \/ PeerDone
    \/ PeerDeleteId

Spec == Init /\ [][Next]_vars

(***************************************************************************)
(* Display.dispatch, step by step: flush, recvmsg (which blocks until the   *)
(* peer has written something) while event_queue is empty, then             *)
(* dispatch_pending.  Display.roundtrip calls it until ready.               *)
(***************************************************************************)
InDispatch(at) == dpc = at /\ raised = "none"

\* self.flush()
DispatchFlush ==
    /\ InDispatch("flush")
    /\ Becomes(AllSent(Self))
    /\ dpc' = "recv"
    /\ last' = [op |-> "flush", k |-> Len(out_queue), kind |-> "none",
                part |-> 0, queue |-> out_queue]
    /\ UNCHANGED <<pc, rt, calls, peer, wire, send_fails, received>>

\* while not self.event_queue: self.recv()
DispatchRecv ==
    /\ InDispatch("recv")
    /\ event_queue = <<>>
    /\ \E n \in 1..Len(wire) : RecvBytes(n)

\* self.dispatch_pending(), and the return
DispatchDrain ==
    /\ InDispatch("recv")
    /\ event_queue # <<>>
    /\ Becomes(dispatch_pending(Self))
    /\ dpc' = "returned"
    /\ last' = [op |-> "dispatch", queue |-> event_queue,
                joined |-> (last.op = "recv" /\ last.prev # <<>>),
                pre |-> Self]
    /\ UNCHANGED <<pc, rt, calls, peer, wire, send_fails, received>>

\* the application calls roundtrip: sync, the handler, the first dispatch
Roundtrip ==
    /\ Ready
    /\ dpc = "idle"
    /\ LET d == roundtrip_begin(Self)
       IN  /\ Becomes(d)
           /\ rt' = d.issued[Len(d.issued)].id
    /\ pc' = "roundtrip"
    /\ dpc' = "flush"
    /\ calls' = 1
    /\ last' = [op |-> "sync"]
    /\ UNCHANGED <<peer, wire, send_fails, received>>

\* a dispatch of roundtrip has returned: return if ready, else dispatch
RoundtripNext ==
    /\ pc \in {"roundtrip", "init_roundtrip"}
    /\ InDispatch("returned")
    /\ IF ready(Self, rt)
       THEN /\ pc' = "ready"
            /\ dpc' = "idle"
            /\ calls' = calls
            /\ last' = [op |-> "roundtrip", rt |-> rt, calls |-> calls,
                        joined |-> last.joined]
       ELSE /\ pc' = pc
            /\ dpc' = "flush"
            /\ calls' = calls + 1
            /\ last' = last
    /\ Becomes(Self)
    /\ UNCHANGED <<rt, peer, wire, send_fails, received>>

\* Display.__init__ up to line 55, and the call of dispatch on line 56
Boot ==
    /\ pc = "new"
    /\ Becomes(init(Self))
    /\ pc' = "init_dispatch"
    /\ dpc' = "flush"
    /\ last' = [op |-> "init"]
    /\ UNCHANGED <<rt, calls, peer, wire, send_fails, received>>

\* line 56 has returned: roundtrip of line 57 up to its first dispatch
InitRoundtrip ==
    /\ pc = "init_dispatch"
    /\ InDispatch("returned")
    /\ LET d == roundtrip_begin(Self)
       IN  /\ Becomes(d)
           /\ rt' = d.issued[Len(d.issued)].id
    /\ pc' = "init_roundtrip"
    /\ dpc' = "flush"
    /\ calls' = 1
    /\ last' = [op |-> "sync"]
    /\ UNCHANGED <<peer, wire, send_fails, received>>

\* a peer that answers a sync request with 'done' and nothing else
PeerDoneOnly ==
    \E x \in Live("Callback") :
        /\ ~Pending(pack_arguments(1, 0, PackI(x)))
        /\ PeerWrites(<<"done", x>>, EventFrame(x, 0, 0))

(***************************************************************************)
(* The decoder on its own: the registry is the one left by                  *)
(* __init__, flush, the compositor announced, create_surface, sync,         *)
(* destroy of the surface, flush: 1 Display, 2 Registry, 3 Compositor,      *)
(* 4 Surface (dead), 5 Callback.  The peer has written a stream of frames;  *)
(* recvmsg hands it over in pieces of any length.                           *)
(***************************************************************************)
DecodeStart ==
    LET d1 == AllSent(init(New))
        d2 == recv(d1, Data(GlobalFrame(2, 1, WlCompositor, 1)))
        d3 == create_surface(dispatch_pending(d2), 3)
    IN  AllSent(destroy(sync(d3), 4))

RECURSIVE Cat(_)
Cat(ss) == IF ss = <<>> THEN <<>> ELSE Head(ss) \o Cat(Tail(ss))

\* frames for the live callback, for the dead surface (with and without
\* arguments), for the root, and for an id in neither table
StreamFrames ==
    { EventFrame(5, 0, 7), EventFrame(4, 0, 1), Header(4, 8, 1),
      DeleteIdFrame(4), EventFrame(DecodeStart.ids, 0, 0) }

Streams ==
    UNION { {Cat(fs) : fs \in [1..n -> StreamFrames]} : n \in 1..MaxStream }

InitDecode ==
    /\ pc = "ready"
    /\ Is(DecodeStart)
    /\ wire \in Streams
    /\ peer_sent = {<<"global", 1>>}
    /\ peer_log = <<>>
    /\ peer_globals = PeerGlobals
    /\ dpc = "idle"
    /\ rt = 0
    /\ calls = 0
    /\ send_fails = 0
    /\ received = <<>>
    /\ last = [op |-> "none"]

NextDecode ==
    \/ Recv
    \/ RecvShort

SpecDecode == InitDecode /\ [][NextDecode]_vars

(***************************************************************************)
(* flush on its own, on a socket whose sends may fail: the Display is the   *)
(* one left by __init__, flush and the shm global announced (1 Display,     *)
(* 2 Registry, 3 Shm, the bind request queued).                             *)
(***************************************************************************)
FlushStart ==
    LET d1 == AllSent(init(New))
    IN  dispatch_pending(recv(d1, Data(GlobalFrame(2, 2, WlShm, 1))))

InitFlush ==
    /\ pc = "ready"
    /\ Is(FlushStart)
    /\ wire = <<>>
    /\ peer_sent = {<<"global", 2>>}
    /\ peer_log = <<>>
    /\ peer_globals = PeerGlobals
    /\ dpc = "idle"
    /\ rt = 0
    /\ calls = 0
    /\ send_fails = 0
    /\ received = GlobalFrame(2, 2, WlShm, 1)
    /\ last = [op |-> "none"]

NextFlush ==
    \/ Sync
    \/ CreatePool
    \/ Flush
    \/ FlushFail

SpecFlush == InitFlush /\ [][NextFlush]_vars

(***************************************************************************)
(* roundtrip called by the application, after __init__, flush and the       *)
(* compositor announced (1 Display, 2 Registry, 3 Compositor).  The        *)
(* application has called sync before, or not; the peer announces its       *)
(* other global late and answers each sync with 'done' and the deletion     *)
(* of the callback.                                                         *)
(***************************************************************************)
RoundStart ==
    LET d1 == AllSent(init(New))
        d2 == recv(d1, Data(GlobalFrame(2, 1, WlCompositor, 1)))
    IN  AllSent(dispatch_pending(d2))

InitRound ==
    /\ pc = "ready"
    /\ Is(RoundStart)
    /\ wire = <<>>
    /\ peer_sent = {<<"global", 1>>}
    /\ peer_log = <<[tag |-> <<"global", 1>>, start |-> 0]>>
    /\ peer_globals = PeerGlobals
    /\ dpc = "idle"
    /\ rt = 0
    /\ calls = 0
    /\ send_fails = 0
    /\ received = GlobalFrame(2, 1, WlCompositor, 1)
    /\ last = [op |-> "none"]

NextRound ==
    \/ Sync
    \/ Roundtrip
    \/ RoundtripNext
    \/ DispatchFlush
    \/ DispatchRecv
    \/ DispatchDrain
    \/ PeerGlobal
    \/ PeerDone

SpecRound == InitRound /\ [][NextRound]_vars

(***************************************************************************)
(* roundtrip against a peer that answers sync with 'done' and writes        *)
(* nothing else.  Every step that can be taken is taken in the end.         *)
(***************************************************************************)
NextSync ==
    \/ Roundtrip
    \/ RoundtripNext
    \/ DispatchFlush
    \/ DispatchRecv
    \/ DispatchDrain
    \/ PeerDoneOnly

SpecSync == InitRound /\ [][NextSync]_vars /\ WF_vars(NextSync)

(***************************************************************************)
(* Display.__init__ whole, against a peer that has some of the globals,     *)
(* or none, and answers sync with 'done'.                                   *)
(***************************************************************************)
InitBoot ==
    /\ pc = "new"
    /\ Is(New)
    /\ wire = <<>>
    /\ peer_sent = {}
    /\ peer_log = <<>>
    /\ peer_globals \in SUBSET PeerGlobals
    /\ dpc = "idle"
    /\ rt = 0
    /\ calls = 0
    /\ send_fails = 0
    /\ received = <<>>
    /\ last = [op |-> "none"]

NextBoot ==
    \/ Boot
    \/ InitRoundtrip
    \/ RoundtripNext
    \/ DispatchFlush
    \/ DispatchRecv
    \/ DispatchDrain
    \/ PeerGlobal
    \/ PeerDoneOnly

SpecBoot == InitBoot /\ [][NextBoot]_vars /\ WF_vars(NextBoot)

(***************************************************************************)
(* dispatch called by the application, after __init__ and flush (1 Display, *)
(* 2 Registry), on a socket whose recvmsg may fail: with errno 11 when      *)
(* nothing more has arrived on a socket that does not block, or with        *)
(* another errno.  The peer announces its globals.                          *)
(***************************************************************************)
\* the application calls dispatch
Dispatch ==
    /\ Ready
    /\ dpc = "idle"
    /\ Becomes(Self)
    /\ pc' = "dispatch"
    /\ dpc' = "flush"
    /\ last' = [op |-> "call"]
    /\ UNCHANGED <<rt, calls, peer, wire, send_fails, received>>

\* self.recv() of the while loop, recvmsg raising socket.error
DispatchRecvFail ==
    /\ InDispatch("recv")
    /\ event_queue = <<>>
    /\ \E kind \in {"EAGAIN", "error"} :
          /\ Becomes(recv(Self, [kind |-> kind]))
          /\ last' = [op |-> "recv_failed", kind |-> kind, pre |-> Self]
    /\ UNCHANGED <<ctl, peer, wire, send_fails, received>>

\* dispatch has returned to the application
DispatchReturn ==
    /\ pc = "dispatch"
    /\ InDispatch("returned")
    /\ Becomes(Self)
    /\ pc' = "ready"
    /\ dpc' = "idle"
    /\ UNCHANGED <<rt, calls, peer, wire, send_fails, received, last>>

\* the peer closes the connection
PeerClose ==
    /\ connected
    /\ PeerWrites(<<"close", 0>>, <<>>)

\* self.recv() of the while loop, recvmsg returning no bytes and no error:
\* all the peer wrote has been received and the peer has closed
DispatchRecvClosed ==
    /\ InDispatch("recv")
    /\ event_queue = <<>>
    /\ wire = <<>>
    /\ <<"close", 0>> \in peer_sent
    /\ Becomes(recv(Self, Data(<<>>)))
    /\ last' = [op |-> "recv_closed", pre |-> Self]
    /\ UNCHANGED <<ctl, peer, wire, send_fails, received>>

InitDispatch ==
    /\ pc = "ready"
    /\ Is(AllSent(init(New)))
    /\ wire = <<>>
    /\ peer_sent = {}
    /\ peer_log = <<>>
    /\ peer_globals = PeerGlobals
    /\ dpc = "idle"
    /\ rt = 0
    /\ calls = 0
    /\ send_fails = 0
    /\ received = <<>>
    /\ last = [op |-> "none"]

NextDispatch ==
    \/ Dispatch
    \/ DispatchFlush
    \/ DispatchRecv
    \/ DispatchRecvFail
    \/ DispatchDrain
    \/ DispatchReturn
    \/ PeerGlobal

SpecDispatch == InitDispatch /\ [][NextDispatch]_vars

(***************************************************************************)
(* dispatch against a peer that may close the connection: recvmsg then      *)
(* returns what is left of the stream and, after that, no bytes.  Every     *)
(* step that can be taken is taken in the end.                              *)
(***************************************************************************)
NextClose ==
    \/ Dispatch
    \/ DispatchFlush
    \/ DispatchRecv
    \/ DispatchRecvClosed
    \/ DispatchDrain
    \/ DispatchReturn
    \/ PeerGlobal
    \/ PeerClose

SpecClose == InitDispatch /\ [][NextClose]_vars /\ WF_vars(NextClose)

(***************************************************************************)
(* The header on its own: a header is packed for a size and an opcode       *)
(* drawn from 0..65535 (the ends, the middle, and values around a byte      *)
(* boundary), and parsed as decode parses it.                               *)
(***************************************************************************)
ParseHeader ==
    /\ last.op = "input"
    /\ last' = [op |-> "header", of |-> last, id |-> HeaderId(wire),
                size |-> HeaderSize(wire), opcode |-> HeaderOp(wire)]
    /\ Becomes(Self)
    /\ UNCHANGED <<ctl, peer, wire, send_fails, received>>

InitHeader ==
    /\ pc = "new"
    /\ Is(New)
    /\ \E size, opcode \in {0, 1, 8, 255, 256, 32767, 32768, 65535} :
          /\ wire = Header(1, size, opcode)
          /\ last = [op |-> "input", size |-> size, opcode |-> opcode]
    /\ peer_sent = {}
    /\ peer_log = <<>>
    /\ peer_globals = {}
    /\ dpc = "idle"
    /\ rt = 0
    /\ calls = 0
    /\ send_fails = 0
    /\ received = <<>>

SpecHeader == InitHeader /\ [][ParseHeader]_vars

(***************************************************************************)
(* Events for a surface the application destroys: after __init__, flush,    *)
(* the compositor announced and create_surface (1 Display, 2 Registry,      *)
(* 3 Compositor, 4 Surface).  The peer writes 'enter' and 'leave' events    *)
(* for a surface until the destroy request has reached it (the output they  *)
(* name stands for any object of the table, here id 1), and acknowledges    *)
(* the destroy.                                                             *)
(***************************************************************************)
PeerSurfaceEvent ==
    \E x \in Live("Surface"), op \in {0, 1} :
        /\ ~(InList(dead_objects, x) /\ ~Pending(pack_arguments(x, 0, <<>>)))
        /\ PeerWrites(<<"surface", x, op>>, EventFrame(x, op, 1))

InitDead ==
    /\ pc = "ready"
    /\ Is(AllSent(create_surface(RoundStart, 3)))
    /\ wire = <<>>
    /\ peer_sent = {<<"global", 1>>}
    /\ peer_log = <<>>
    /\ peer_globals = PeerGlobals
    /\ dpc = "idle"
    /\ rt = 0
    /\ calls = 0
    /\ send_fails = 0
    /\ received = GlobalFrame(2, 1, WlCompositor, 1)
    /\ last = [op |-> "none"]

NextDead ==
    \/ Destroy
    \/ Flush
    \/ Recv
    \/ DispatchPending
    \/ PeerSurfaceEvent
    \/ PeerDeleteId

SpecDead == InitDead /\ [][NextDead]_vars

(***************************************************************************)
(* dispatch_pending turn by turn, with handlers of the application that     *)
(* call back into the Display: after __init__, flush and the compositor     *)
(* announced (1 Display, 2 Registry, 3 Compositor), the application calls   *)
(* sync and puts on each callback a handle_done that calls                  *)
(* display.dispatch() and returns.  active is the stack of these handler    *)
(* calls; the handlers of client.py run in one step.  The peer announces    *)
(* its other global and answers a sync with 'done', with or without the     *)
(* deletion of the callback.                                                *)
(***************************************************************************)
\* the innermost handler call is at another place of its dispatch call
At(d, at) == [d EXCEPT !.active[Len(d.active)].at = at]

\* the application calls dispatch_pending with events in the queue
DrainBegin ==
    /\ Ready
    /\ event_queue # <<>>
    /\ Becomes(Self)
    /\ pc' = "drain"
    /\ last' = [op |-> "call"]
    /\ UNCHANGED <<dpc, rt, calls, peer, wire, send_fails, received>>

\* one turn of the while loop of dispatch_pending, of the application's
\* call or of the dispatch call of the innermost handler: pop, look the
\* handler up, call it; the handler of a callback's 'done' is the
\* application's
Invoke ==
    /\ pc = "drain"
    /\ raised = "none"
    /\ active # <<>> => active[Len(active)].at \in {"recv", "drain"}
    /\ event_queue # <<>>
    /\ LET p == Popped(Self)
           d0 == IF active = <<>> THEN p.d ELSE At(p.d, "drain")
           d1 == Handle(d0, p.ev)
       IN  Becomes(IF /\ d1.raised = "none"
                      /\ p.ev.obj.cls = "Callback"
                      /\ p.ev.event = 0
                      /\ p.ev.obj.obj_id \notin d1.waiting
                   THEN [d1 EXCEPT !.active =
                            Append(@, [ev |-> p.ev, at |-> "flush"])]
                   ELSE d1)
    /\ last' = [op |-> "handler", queue |-> event_queue]
    /\ UNCHANGED <<ctl, peer, wire, send_fails, received>>

\* the handler's dispatch call: self.flush()
HandlerFlush ==
    /\ pc = "drain"
    /\ raised = "none"
    /\ active # <<>>
    /\ active[Len(active)].at = "flush"
    /\ Becomes(At(AllSent(Self), "recv"))
    /\ last' = [op |-> "flush", k |-> Len(out_queue), kind |-> "none",
                part |-> 0, queue |-> out_queue]
    /\ UNCHANGED <<ctl, peer, wire, send_fails, received>>

\* the handler's dispatch call: while not self.event_queue: self.recv()
HandlerRecv ==
    /\ pc = "drain"
    /\ raised = "none"
    /\ active # <<>>
    /\ active[Len(active)].at = "recv"
    /\ event_queue = <<>>
    /\ wire # <<>>
    /\ RecvBytes(Len(wire))

\* the handler's dispatch call has drained the queue and returns, and the
\* handler returns
HandlerReturn ==
    /\ pc = "drain"
    /\ raised = "none"
    /\ active # <<>>
    /\ active[Len(active)].at = "drain"
    /\ event_queue = <<>>
    /\ Becomes([Self EXCEPT !.active = SubSeq(@, 1, Len(@) - 1)])
    /\ last' = [op |-> "return"]
    /\ UNCHANGED <<ctl, peer, wire, send_fails, received>>

\* the application's dispatch_pending call returns
DrainEnd ==
    /\ pc = "drain"
    /\ raised = "none"
    /\ active = <<>>
    /\ event_queue = <<>>
    /\ Becomes(Self)
    /\ pc' = "ready"
    /\ last' = [op |-> "return"]
    /\ UNCHANGED <<dpc, rt, calls, peer, wire, send_fails, received>>

NextNest ==
    \/ Sync
    \/ Flush
    \/ Recv
    \/ DrainBegin
    \/ Invoke
    \/ HandlerFlush
    \/ HandlerRecv
    \/ HandlerReturn
    \/ DrainEnd
    \/ PeerGlobal
    \/ PeerDone
    \/ PeerDoneOnly

SpecNest == InitRound /\ [][NextNest]_vars

(***************************************************************************)
(* The handlers of the root and of the registry, after __init__ and flush   *)
(* (1 Display, 2 Registry).  The peer announces globals, three of them of   *)
(* one interface and one of an interface that has no template, removes      *)
(* globals it has announced (one of them twice), and writes 'error' and     *)
(* 'delete_id' events, a frame for the root with an opcode the root has     *)
(* no event for, and a header for the root that declares size 0.            *)
(* The application may catch the AttributeError that leaves                 *)
(* dispatch_pending and go on.                                              *)
(***************************************************************************)
EventsStart == AllSent(init(New))

\* "wl_x": an interface that is not in known_globals
WlX == <<119, 108, 95, 120>>

\* wl_registry.global_remove, wl_display.error
GlobalRemoveFrame(reg, name) == EventFrame(reg, 1, name)
ErrorFrame(object_id, code, message) ==
    LET args == PackI(object_id) \o PackI(code) \o PackString(message)
    IN  Header(1, 8 + Len(args), 0) \o args

\* what the peer may write: tag and frame
PeerEvents ==
    {<<<<"global", n>>, GlobalFrame(2, n, WlCompositor, 1)>> : n \in 1..3}
    \cup {<<<<"global", 4>>, GlobalFrame(2, 4, WlX, 1)>>}
    \cup {<<<<"global_remove", n>>, GlobalRemoveFrame(2, n)>> : n \in 1..3}
    \cup {<<<<"error", x>>, ErrorFrame(x, 0, <<33>>)>> : x \in {2, 9}}
    \cup {<<<<"delete_id", 9>>, DeleteIdFrame(9)>>}
    \cup {<<<<"global_remove_again", 1>>, GlobalRemoveFrame(2, 1)>>}
    \cup {<<<<"opcode", 2>>, EventFrame(1, 2, 0)>>}
    \cup {<<<<"size", 0>>, Header(1, 0, 2)>>}

PeerEvent ==
    /\ event_queue = <<>>
    /\ Len(peer_log) < MaxEvents
    /\ \E e \in PeerEvents :
          /\ e[1][1] = "global_remove" => <<"global", e[1][2]>> \in peer_sent
          /\ e[1][1] = "global_remove_again" =>
                 <<"global_remove", e[1][2]>> \in peer_sent
          /\ (e[1][1] = "global" /\ e[1][2] \in 2..3) =>
                 <<"global", e[1][2] - 1>> \in peer_sent
          /\ PeerWrites(e[1], e[2])

\* the application catches the exception of a removal and goes on
Recover ==
    /\ pc = "ready"
    /\ raised = "AttributeError"
    /\ raised' = "none"
    /\ last' = [op |-> "except"]
    /\ UNCHANGED <<ctl, peer, waiting, fired, active, queued, handled, ids,
                   open_ids, objects, dead_objects, out_queue, event_queue,
                   incoming_fds, previous_data, globals, global_objects,
                   connected, sock, sock_fds, send_fails, issued, early,
                   frees, unacked, enqueued, sends, received, wire>>

InitEvents ==
    /\ pc = "ready"
    /\ Is(EventsStart)
    /\ wire = <<>>
    /\ peer_sent = {}
    /\ peer_log = <<>>
    /\ peer_globals = {}
    /\ dpc = "idle"
    /\ rt = 0
    /\ calls = 0
    /\ send_fails = 0
    /\ received = <<>>
    /\ last = [op |-> "none"]

NextEvents ==
    \/ PeerEvent
    \/ Recv
    \/ DispatchPending
    \/ Recover

SpecEvents == InitEvents /\ [][NextEvents]_vars

(***************************************************************************)
(* Descriptors.  After __init__ and flush the peer has announced its seat   *)
(* and the application has called get_keyboard twice (1 Display,            *)
(* 2 Registry, 3 Seat, 4 and 5 Keyboard), or it has announced its data      *)
(* device manager and the application has called create_data_source twice  *)
(* (3 DataDeviceManager, 4 and 5 DataSource).  The peer writes 'keymap'     *)
(* and 'send' events, each with a descriptor, and events without one; a     *)
(* descriptor travels with the first byte of its frame, and the k-th one    *)
(* that recvmsg returns is the descriptor k of the client.  The             *)
(* application may destroy a data source.                                   *)
(***************************************************************************)
FdsStart(interface, cls) ==
    LET d1 == AllSent(init(New))
        d2 == dispatch_pending(recv(d1, Data(GlobalFrame(2, 1, interface, 1))))
        d3 == IF cls = "Keyboard" THEN get_keyboard(get_keyboard(d2, 3), 3)
              ELSE create_data_source(create_data_source(d2, 3), 3)
    IN  AllSent(d3)

\* an event with a descriptor: wl_keyboard.keymap(format, fd, size) with no
\* keymap, or wl_data_source.send(mime_type, fd) with an empty mime type
FdFrame(cls, x) ==
    IF cls = "Keyboard" THEN Header(x, 16, 0) \o PackI(0) \o PackI(0)
    ELSE Header(x, 12, 1) \o PackI(4)

\* an event without one: wl_keyboard.repeat_info(rate, delay), or
\* wl_data_source.cancelled
PlainFrame(cls, x) ==
    IF cls = "Keyboard" THEN Header(x, 16, 5) \o PackI(25) \o PackI(0)
    ELSE Header(x, 8, 2)

\* the descriptors of the writes of the peer that begin in bytes lo..hi-1
\* of its stream, in order
FdsIn(lo, hi) ==
    LET ws == SelectSeq(peer_log, LAMBDA w : /\ w.tag[1] = "fd"
                                             /\ w.start >= lo
                                             /\ w.start < hi)
    IN  [i \in 1..Len(ws) |-> ws[i].tag[2]]

\* the peer has not seen a destroy request for x
NotDestroyed(x) ==
    ~(InList(dead_objects, x) /\ ~Pending(pack_arguments(x, 1, <<>>)))

PeerFdEvent ==
    LET k == Cardinality({t \in peer_sent : t[1] = "fd"}) + 1
    IN  /\ k <= MaxFds
        /\ \E x \in Live("Keyboard") \cup Live("DataSource") :
              /\ NotDestroyed(x)
              /\ PeerWrites(<<"fd", k, x>>, FdFrame(objects[x], x))

PeerPlainEvent ==
    \E x \in Live("Keyboard") \cup Live("DataSource") :
        /\ NotDestroyed(x)
        /\ PeerWrites(<<"plain", 0>>, PlainFrame(objects[x], x))

\* DataSource.destroy
DestroySource ==
    /\ Ready
    /\ \E s \in Live("DataSource") :
          /\ ~InList(dead_objects, s)
          /\ LET d1 == Enqueue(Self, pack_arguments(s, 1, <<>>), <<>>)
             IN  Becomes([remove_object(d1, s) EXCEPT !.unacked = @ \cup {s}])
          /\ last' = [op |-> "destroy", id |-> s]
    /\ UNCHANGED <<ctl, peer, wire, send_fails, received>>

\* recv when recvmsg gives the first bytes the peer wrote and the
\* descriptors that came with them: all there is, or a piece that ends
\* inside the first header
FirstCut == 4

RecvFds ==
    /\ Ready
    /\ \E n \in {Min(FirstCut, Len(wire)), Len(wire)} \ {0} :
          /\ Becomes(recv(Self, [kind |-> "data", data |-> Slice(wire, 0, n),
                                 fds |-> FdsIn(Len(received),
                                               Len(received) + n)]))
          /\ wire' = From(wire, n)
          /\ received' = received \o Slice(wire, 0, n)
          /\ last' = [op |-> "recv", buf |-> Buffered(Self, Slice(wire, 0, n)),
                      prev |-> previous_data, queue |-> event_queue,
                      objects |-> objects]
    /\ UNCHANGED <<ctl, peer, send_fails>>

InitFds ==
    /\ pc = "ready"
    /\ \E s \in {<<WlSeat, "Keyboard">>, <<WlDataDeviceManager, "DataSource">>} :
          /\ Is(FdsStart(s[1], s[2]))
          /\ received = GlobalFrame(2, 1, s[1], 1)
    /\ wire = <<>>
    /\ peer_sent = {<<"global", 1>>}
    /\ peer_log = <<>>
    /\ peer_globals = {}
    /\ dpc = "idle"
    /\ rt = 0
    /\ calls = 0
    /\ send_fails = 0
    /\ last = [op |-> "none"]

NextFds ==
    \/ PeerFdEvent
    \/ PeerPlainEvent
    \/ DestroySource
    \/ Flush
    \/ RecvFds

SpecFds == InitFds /\ [][NextFds]_vars

(***************************************************************************)
(* Objects the server creates.  After __init__, flush, the seat and the     *)
(* data device manager announced and get_data_device (1 Display,            *)
(* 2 Registry, 3 Seat, 4 DataDeviceManager, 5 DataDevice), the peer writes  *)
(* 'data_offer' events for the data device: with an id of its own, or with  *)
(* an id that is in the table of the client.                                *)
(***************************************************************************)
OfferStart ==
    LET d1 == AllSent(init(New))
        d2 == recv(d1, Data(GlobalFrame(2, 1, WlSeat, 1)
                            \o GlobalFrame(2, 2, WlDataDeviceManager, 1)))
    IN  AllSent(get_data_device(dispatch_pending(d2), 4, 3))

\* the peer gives its data offer the id of the root, of the data device,
\* or one that is not in the table
PeerOffer ==
    \E x \in Live("DataDevice"), id \in {1, 5, 9} :
        /\ ~Pending(pack_arguments(4, 1, PackI(x) \o PackI(3)))
        /\ PeerWrites(<<"data_offer", id>>, EventFrame(x, 0, id))

InitOffer ==
    /\ pc = "ready"
    /\ Is(OfferStart)
    /\ wire = <<>>
    /\ peer_sent = {<<"global", 1>>, <<"global", 2>>}
    /\ peer_log = <<>>
    /\ peer_globals = {}
    /\ dpc = "idle"
    /\ rt = 0
    /\ calls = 0
    /\ send_fails = 0
    /\ received = GlobalFrame(2, 1, WlSeat, 1)
                  \o GlobalFrame(2, 2, WlDataDeviceManager, 1)
    /\ last = [op |-> "none"]

NextOffer ==
    \/ PeerOffer
    \/ Recv
    \/ RecvShort

SpecOffer == InitOffer /\ [][NextOffer]_vars

(***************************************************************************)
(* The object registry.                                                     *)
(***************************************************************************)
\* C1: an id passed to remove_object by a destroy request is not returned
\* by next_id before handle_delete_id has handled that id.
C1_NoIdBeforeAck == early = {}

\* an object was created while a destroyed id awaited its acknowledgment
C1_Witness ==
    /\ unacked # {}
    /\ last.op \in {"sync", "create_surface", "create_pool"}

\* the ids whose deletion acknowledgment is among the events q
IsAck(ev) == ev # None /\ ev.obj.cls = "Display" /\ ev.event = 1
AckedIn(q) == {q[i].args[1] : i \in {j \in 1..Len(q) : IsAck(q[j])}}

\* C2: after handle_delete_id(X), X is neither in dead_objects nor in
\* objects.
C2_AckedIdGone ==
    (last.op = "dispatch_pending" /\ raised = "none") =>
        \A x \in AckedIn(last.queue) :
            ~InList(dead_objects, x) /\ x \notin DOMAIN objects

\* C3: after handle_delete_id(X), X is on open_ids (so that the next
\* next_id takes a recycled id before the counter).
C3_AckedIdOnFreeList ==
    (last.op = "dispatch_pending" /\ raised = "none") =>
        \A x \in AckedIn(last.queue) : InList(open_ids, x)

\* C4: the ids next_id returns with no free between them are strictly
\* increasing, and the first id it returns is 1.
C4_IdsIncrease ==
    /\ \A i, j \in 1..Len(issued) :
          (i < j /\ issued[i].frees = issued[j].frees) =>
              issued[i].id < issued[j].id
    /\ issued # <<>> => issued[1].id = 1

\* next_id was called three times in a row with no free in between
C4_Witness ==
    \E i \in 1..Len(issued) :
        /\ i + 2 <= Len(issued)
        /\ issued[i].frees = issued[i + 2].frees

(***************************************************************************)
(* The decoder.                                                             *)
(***************************************************************************)
\* C5: a stream of frames that decodes without error in one piece gives,
\* however recvmsg cuts it, the same event_queue and the same previous_data
\* as the decode of all that was received in one piece.
C5_ChunkingIrrelevant ==
    LET w == decode(DecodeStart, received)
    IN  w.raised = "none" =>
           /\ raised = "none"
           /\ event_queue = w.event_queue
           /\ previous_data = w.previous_data

\* the stream is through, the last piece was joined to retained bytes and
\* completed a frame
C5_Witness ==
    /\ wire = <<>>
    /\ raised = "none"
    /\ last.op = "recv"
    /\ last.prev # <<>>
    /\ Len(event_queue) >= 2
    /\ Len(event_queue) > Len(last.queue)
    /\ decode(DecodeStart, received).raised = "none"

\* the buffer decode worked on holds less than a header, or less than the
\* size its header declares
ShortBuffer(buf) == Len(buf) < 8 \/ HeaderSize(buf) > Len(buf)

\* C6: when previous_data + chunk is shorter than a header or than the size
\* its header declares, decode queues no event and retains the whole buffer
\* in previous_data.
C6_ShortBufferRetained ==
    (last.op = "recv" /\ ShortBuffer(last.buf)) =>
        /\ raised = "none"
        /\ event_queue = last.queue
        /\ previous_data = last.buf

\* a whole header whose frame is not all there
C6_Witness ==
    /\ last.op = "recv"
    /\ Len(last.buf) >= 8
    /\ HeaderSize(last.buf) > Len(last.buf)
    /\ previous_data = last.buf

\* the buffer begins with a complete frame
CompleteFrame(buf) ==
    Len(buf) >= 8 /\ HeaderSize(buf) >= 8 /\ HeaderSize(buf) <= Len(buf)

\* C7: a complete frame for an id in dead_objects queues nothing and raises
\* nothing; exactly its declared size is consumed, and decoding goes on with
\* the frame after it.
C7_DeadFrameSkipped ==
    (/\ last.op = "recv"
     /\ CompleteFrame(last.buf)
     /\ InList(dead_objects, HeaderId(last.buf))) =>
        LET rest == From(last.buf, HeaderSize(last.buf))
            r == DecodeLoop([Self EXCEPT !.event_queue = last.queue,
                                         !.previous_data = last.prev], rest)
        IN  /\ raised = r.d.raised
            /\ event_queue = r.d.event_queue
            /\ raised = "none" => previous_data = r.data
            /\ rest = <<>> => raised = "none" /\ event_queue = last.queue

\* a frame for the dead surface, then a frame that queued an event
C7_Witness ==
    /\ last.op = "recv"
    /\ CompleteFrame(last.buf)
    /\ InList(dead_objects, HeaderId(last.buf))
    /\ raised = "none"
    /\ Len(event_queue) > Len(last.queue)

\* the buffer begins with a complete frame for an id in neither table
UnknownFrame(buf) ==
    /\ CompleteFrame(buf)
    /\ HeaderId(buf) \notin DOMAIN objects
    /\ ~InList(dead_objects, HeaderId(buf))

\* C8: a complete frame for an id in neither objects nor dead_objects makes
\* decode raise IOError, and no event is queued for it.
C8_UnknownIdRaises ==
    (last.op = "recv" /\ UnknownFrame(last.buf)) =>
        raised = "IOError" /\ event_queue = last.queue

C8_Witness ==
    /\ last.op = "recv"
    /\ UnknownFrame(last.buf)
    /\ last.prev # <<>>
    /\ raised = "IOError"

(***************************************************************************)
(* flush.                                                                   *)
(***************************************************************************)
\* entry n of the queue went out whole in one of the first j sends
SentWhole(n, j) == \E i \in 1..j : sends[i].n = n /\ sends[i].whole

\* C9: no byte of an entry is sent before every entry queued ahead of it has
\* been sent completely, a send that would block notwithstanding.
C9_QueueOrderKept ==
    \A j \in 1..Len(sends) :
        sends[j].len > 0 =>
            \A m \in 1..(sends[j].n - 1) : SentWhole(m, j - 1)

\* a send of an entry would block, and an entry queued behind it went out
\* later
C9_Witness ==
    /\ raised = "none"
    /\ \E i, j \in 1..Len(sends) :
          /\ i < j
          /\ ~sends[i].whole
          /\ sends[j].n > sends[i].n
          /\ sends[j].whole

\* the payloads, and the descriptors, of the entries in the order queued
Payloads == Cat([i \in 1..Len(enqueued) |-> enqueued[i].data])
Descriptors == Cat([i \in 1..Len(enqueued) |-> enqueued[i].fds])

\* C10: once the queue has drained, the bytes written to the socket are the
\* payloads queued, in order, none twice and none skipped, and the
\* descriptors of each entry went out once.
C10_EachByteOnce ==
    (raised = "none" /\ out_queue = <<>>) =>
        sock = Payloads /\ sock_fds = Descriptors

\* C11: when the first send of an entry would block with no byte accepted,
\* flush returns without raising and out_queue is what it was before that
\* send: the entry and those behind it, in order, payloads and descriptors
\* unchanged.
C11_WouldBlockKeepsQueue ==
    (last.op = "flush" /\ last.kind = "EAGAIN" /\ last.part = 0) =>
        /\ raised = "none"
        /\ out_queue = SubSeq(last.queue, last.k + 1, Len(last.queue))

\* the send that would block had an entry with descriptors at the head and
\* another entry behind it
C11_Witness ==
    /\ last.op = "flush"
    /\ last.kind = "EAGAIN"
    /\ last.part = 0
    /\ Len(out_queue) >= 2
    /\ out_queue[1].fds # <<>>
    /\ raised = "none"

\* C27: when a send inside flush fails with an error other than would-block,
\* the error leaves flush (raised is socket.error), the failing entry is the
\* last one a send was attempted for, and the entries behind it are still in
\* out_queue, in order, with nothing of them written.
C27_SendErrorStopsFlush ==
    (last.op = "flush" /\ last.kind = "error") =>
        /\ raised = "socket.error"
        /\ out_queue = SubSeq(last.queue, last.k + 2, Len(last.queue))
        /\ sends # <<>>
        /\ sends[Len(sends)].n = last.queue[last.k + 1].n
        /\ ~sends[Len(sends)].whole
        /\ \A e \in 1..Len(out_queue) :
               \A s \in 1..Len(sends) : sends[s].n # out_queue[e].n

\* the second entry's send failed after the first was written, and a third
\* entry was behind it
C27_Witness ==
    /\ last.op = "flush"
    /\ last.kind = "error"
    /\ last.k >= 1
    /\ out_queue # <<>>
    /\ raised = "socket.error"

(***************************************************************************)
(* The dispatcher.                                                          *)
(***************************************************************************)
\* the events of a history, in its order
EventsOf(h) == [i \in 1..Len(h) |-> h[i].ev]

\* C12: the handlers are called in the order the frames were decoded, each
\* queued event is handed to its handler once and leaves event_queue; when
\* dispatch_pending has returned, event_queue is empty.
C12_HandledInDecodeOrder ==
    raised = "none" =>
        /\ EventsOf(handled) \o event_queue = EventsOf(queued)
        /\ last.op = "dispatch_pending" => event_queue = <<>>

\* a dispatch_pending that found two or more events, after an earlier one
C12_Witness ==
    /\ last.op = "dispatch_pending"
    /\ raised = "none"
    /\ Len(last.queue) >= 2
    /\ Len(handled) > Len(last.queue)
    /\ event_queue = <<>>

(***************************************************************************)
(* roundtrip and __init__.                                                  *)
(***************************************************************************)
\* the bytes the peer had written when it had written 'done' for callback x
DoneEnds(x) ==
    {peer_log[i].start + 12 :
        i \in {j \in 1..Len(peer_log) : peer_log[j].tag = <<"done", x>>}}

\* C13: when roundtrip returns, all that the peer wrote up to the 'done' of
\* its callback has been decoded (it is not in previous_data), no event is
\* left in event_queue and every decoded event has been handed to its
\* handler.
C13_RoundtripBarrier ==
    last.op = "roundtrip" =>
        /\ \E e \in DoneEnds(last.rt) :
              Len(received) - Len(previous_data) >= e
        /\ event_queue = <<>>
        /\ EventsOf(handled) = EventsOf(queued)

\* roundtrip has returned, and during it an announcement or an
\* acknowledgment was handled before the 'done' of its callback
C13_Witness ==
    /\ last.op = "roundtrip"
    /\ \E i, j \in 2..Len(handled) :
          /\ i < j
          /\ handled[i].handler \in {"global", "delete_id"}
          /\ handled[j].handler = "done"
          /\ handled[j].ev.obj.obj_id = last.rt

\* C14: against a peer that answers sync with one 'done' and writes nothing
\* else, roundtrip returns, and it has then called dispatch once, however
\* recvmsg cut the 'done' frame.
C14_OneDispatchCycle ==
    /\ [](last.op = "roundtrip" => last.calls = 1)
    /\ (pc = "roundtrip") ~> (pc = "ready" /\ raised = "none")

\* roundtrip has returned after a 'done' frame that came in pieces
C14_Witness ==
    /\ last.op = "roundtrip"
    /\ last.calls = 1
    /\ last.joined
    /\ pc = "ready"

\* C15: Display.__init__ registers the root as id 1, queues the
\* get_registry request, and returns, whatever globals the peer announces
\* (none included), the peer answering sync with 'done'.
C15_BootstrapReturns ==
    /\ [](pc # "new" =>
            /\ issued[1].id = 1
            /\ enqueued[1].data = pack_arguments(1, 1, PackI(2)))
    /\ <>(pc = "ready" /\ raised = "none")

(***************************************************************************)
(* The handlers of the registry and of the root.                            *)
(***************************************************************************)
\* dispatch_pending has just handled one event, of class cls and index op
Dispatched(cls, op) ==
    /\ last.op = "dispatch_pending"
    /\ Len(last.queue) = 1
    /\ last.queue[1] # None
    /\ last.queue[1].obj.cls = cls
    /\ last.queue[1].event = op

\* C16: a 'global' event for an interface of the template table takes one
\* new id, appends one bind request, puts the new proxy in objects under
\* that id and in globals under the interface; for an interface that is not
\* in the table no id is taken, nothing is appended and nothing recorded.
C16_GlobalBindsOnce ==
    Dispatched("Registry", 0) =>
        LET a == last.queue[1].args
            pre == last.pre
        IN  IF a[2] \in DOMAIN global_templates
            THEN LET new_id == issued[Len(issued)].id
                     obj == Proxy(global_templates[a[2]], new_id)
                 IN  /\ raised = "none"
                     /\ Len(issued) = Len(pre.issued) + 1
                     /\ new_id \notin DOMAIN pre.objects
                     /\ out_queue = Append(pre.out_queue,
                            out_queue[Len(out_queue)])
                     /\ out_queue[Len(out_queue)].data =
                            pack_arguments(2, 0,
                                PackI(a[1]) \o PackString(a[2])
                                \o PackI(a[3]) \o PackI(new_id))
                     /\ out_queue[Len(out_queue)].fds = <<>>
                     /\ objects = DictSet(pre.objects, new_id, obj.cls)
                     /\ a[2] \in DOMAIN globals
                     /\ InList(globals[a[2]].items, obj)
                     /\ Len(globals[a[2]].items) =
                            IF a[2] \in DOMAIN pre.globals
                            THEN Len(pre.globals[a[2]].items) + 1 ELSE 1
            ELSE /\ raised = "none"
                 /\ issued = pre.issued
                 /\ out_queue = pre.out_queue
                 /\ objects = pre.objects
                 /\ globals = pre.globals
                 /\ global_objects = pre.global_objects

\* a second global of an interface that has a template was bound
C16_Witness ==
    /\ Dispatched("Registry", 0)
    /\ last.queue[1].args[2] \in DOMAIN last.pre.globals
    /\ raised = "none"
    /\ Len(out_queue) = Len(last.pre.out_queue) + 1

\* the names whose removal was handled, and the proxies bound for an
\* interface and not removed, in the order of their announcements
RemovedNames ==
    {handled[k].args[1] :
        k \in {j \in 1..Len(handled) : handled[j].handler = "global_remove"}}

IsBound(h, interface) ==
    /\ h.handler = "global"
    /\ h.args[2] = interface
    /\ h.args[1] \notin RemovedNames

BoundOf(interface) ==
    LET hs == SelectSeq(handled, LAMBDA h : IsBound(h, interface))
    IN  [k \in 1..Len(hs) |->
            Proxy(global_templates[interface], global_objects[hs[k].args[1]])]

\* C17: the slot of an interface in globals is absent when no global of the
\* interface is bound, the proxy itself when one is bound, and the list of
\* the bound proxies in announcement order when two or more are.
C17_SlotShape ==
    \A interface \in DOMAIN global_templates :
        LET b == BoundOf(interface)
        IN  /\ Len(b) = 0 => interface \notin DOMAIN globals
            /\ Len(b) = 1 =>
                  interface \in DOMAIN globals /\ globals[interface] = One(b[1])
            /\ Len(b) >= 2 =>
                  interface \in DOMAIN globals /\ globals[interface] = Several(b)

\* two announcements, then the removal of the first: the second proxy alone
C17_Witness ==
    /\ Len(handled) = 3
    /\ handled[1].handler = "global"
    /\ handled[2].handler = "global"
    /\ handled[3].handler = "global_remove"
    /\ handled[3].args[1] = handled[1].args[1]
    /\ WlCompositor \in DOMAIN globals
    /\ globals[WlCompositor] = One(Proxy("Compositor", 4))

\* C18: a 'global_remove' event for a bound name is handled without error,
\* takes the proxy out of objects and out of globals, and appends no
\* request.
C18_RemoveUnregisters ==
    (Dispatched("Registry", 1)
     /\ last.queue[1].args[1] \in DOMAIN last.pre.global_objects) =>
        LET id_num == last.pre.global_objects[last.queue[1].args[1]]
            obj == Proxy(last.pre.objects[id_num], id_num)
        IN  /\ raised = "none"
            /\ id_num \notin DOMAIN objects
            /\ \A i \in DOMAIN globals : ~InList(globals[i].items, obj)
            /\ out_queue = last.pre.out_queue

\* C19: the 'error' event always ends with the connection closed, whatever
\* object id it carries.
C19_ErrorDisconnects ==
    Dispatched("Display", 0) => ~connected

\* C20: a frame for id 1 with opcode 1 and a 4-byte payload n is handed to
\* handle_delete_id with the argument n, and one with opcode 0 to
\* handle_error.
C20_RootDispatch ==
    \A i \in 1..Len(handled) :
        LET f == queued[i].frame
            h == handled[i]
        IN  /\ h.ev = queued[i].ev
            /\ (HeaderId(f) = 1 /\ HeaderOp(f) = 1 /\ Len(f) = 12) =>
                  /\ h.handler = "delete_id"
                  /\ h.args = <<UnpackI(Slice(f, 8, 12))>>
            /\ (HeaderId(f) = 1 /\ HeaderOp(f) = 0) =>
                  /\ h.handler = "error"
                  /\ h.args[1] = UnpackI(Slice(f, 8, 12))

\* a 'delete_id' frame for id 9 has reached its handler
C20_Witness ==
    \E i \in 1..Len(handled) :
        /\ queued[i].frame = DeleteIdFrame(9)
        /\ handled[i].handler = "delete_id"
        /\ handled[i].args = <<9>>

C23_WouldBlockAbsorbed ==
    last.op = "recv_failed" =>
        /\ last.kind = "EAGAIN" =>
              /\ raised = "none"
              /\ event_queue = last.pre.event_queue
              /\ previous_data = last.pre.previous_data
              /\ incoming_fds = last.pre.incoming_fds
              /\ dpc = "recv"
        /\ last.kind = "error" =>
              /\ raised = "socket.error"
              /\ pc = "dispatch"
              /\ dpc # "returned"

\* recvmsg would have blocked while part of a frame was kept in previous_data
C23_Witness ==
    /\ last.op = "recv_failed"
    /\ last.kind = "EAGAIN"
    /\ previous_data # <<>>
    /\ raised = "none"

\* recvmsg failed with another error inside dispatch
C23_WitnessError ==
    /\ last.op = "recv_failed"
    /\ last.kind = "error"
    /\ raised = "socket.error"

C25_NoHandlerOnDead ==
    \A i \in 1..Len(handled) : ~handled[i].dead

\* C26: every entry of event_queue is an event whose index is one of its
\* target's events list, so that dispatch_pending finds a handler: no frame
\* makes dispatch_pending fail on the entry it pops.
C26_QueueEntriesValid ==
    /\ \A i \in 1..Len(event_queue) :
          /\ event_queue[i] # None
          /\ event_queue[i].event + 1 <= Len(events(event_queue[i].obj.cls))
    /\ raised \notin {"TypeError", "IndexError"}

\* C30: a 'global_remove' event for a name whose removal has been handled
\* before raises nothing and changes nothing.
C30_SecondRemoveNoOp ==
    (Dispatched("Registry", 1)
     /\ \E j \in 1..Len(last.pre.handled) :
           /\ last.pre.handled[j].handler = "global_remove"
           /\ last.pre.handled[j].args = last.queue[1].args) =>
        /\ raised = "none"
        /\ objects = last.pre.objects
        /\ globals = last.pre.globals
        /\ global_objects = last.pre.global_objects
        /\ out_queue = last.pre.out_queue

\* C24: a handler has returned before the next queued event is handed to its
\* handler: no handler is called while another handler call is in progress,
\* also when a handler calls dispatch itself.
C24_OneHandlerAtATime ==
    \A i \in 1..Len(handled) : handled[i].depth = 0

\* C22: no call replaces an entry of the live table: an id that is in
\* objects before recv decodes a frame that creates a proxy (a 'data_offer'
\* event) is mapped to the same proxy after it.
C22_NoSilentReplace ==
    last.op = "recv" =>
        \A x \in DOMAIN last.objects :
            x \in DOMAIN objects /\ objects[x] = last.objects[x]

\* the descriptors that recvmsg has returned, and the descriptors the
\* decoders have put in events, each in order
Arrived == FdsIn(0, Len(received))

TakesFd(ev) ==
    /\ ev # None
    /\ \/ ev.obj.cls = "Keyboard" /\ ev.event = 0
       \/ ev.obj.cls = "DataSource" /\ ev.event = 1

Taken ==
    LET qs == SelectSeq(queued, LAMBDA q : TakesFd(q.ev))
    IN  [i \in 1..Len(qs) |-> qs[i].ev.args[2]]

\* C28: the descriptors that recv has received are, in the order they came,
\* those the decoders of 'keymap' and 'send' events have taken followed by
\* those still in incoming_fds: the k-th such event decoded has the k-th
\* descriptor received, and nothing else removes a descriptor.
C28_FdsInOrder ==
    Taken \o incoming_fds = Arrived

\* two events have taken their descriptors, and a third descriptor, which
\* came ahead of its frame or with a frame for a destroyed data source, is
\* in incoming_fds
C28_Witness ==
    /\ Len(Taken) >= 2
    /\ incoming_fds # <<>>
    /\ last.op = "recv"

\* C31: decode terminates on every buffer: a frame that is consumed
\* shortens the buffer, whatever size its header declares.
C31_DecodeTerminates ==
    raised # "hang"

\* C32: every decoded event that takes a descriptor has the descriptor the
\* peer sent with an event for that same object, also when a frame with a
\* descriptor was skipped because its target is in dead_objects.
C32_FdOfItsEvent ==
    \A i \in 1..Len(queued) :
        TakesFd(queued[i].ev) =>
            <<"fd", queued[i].ev.args[2], queued[i].ev.obj.obj_id>>
                \in peer_sent

\* C33: when the peer has closed the connection while dispatch is in its
\* receive loop, dispatch returns or raises in the end.
C33_ClosedPeerEndsDispatch ==
    (pc = "dispatch" /\ <<"close", 0>> \in peer_sent)
        ~> (pc = "ready" \/ raised # "none")

\* C34: dead_objects never holds an id twice, and it holds no more ids than
\* there are destroyed objects whose deletion is not yet acknowledged.
C34_DeadSetBounded ==
    /\ \A i, j \in 1..Len(dead_objects) :
          dead_objects[i] = dead_objects[j] => i = j
    /\ Len(dead_objects) <= Cardinality(unacked)

\* C35: handling 'delete_id' for an id that is neither in objects nor in
\* dead_objects leaves objects, dead_objects and open_ids as they were.
C35_UnknownAckChangesNothing ==
    (Dispatched("Display", 1)
     /\ last.queue[1].args[1] \notin DOMAIN last.pre.objects
     /\ ~InList(last.pre.dead_objects, last.queue[1].args[1])) =>
        /\ objects = last.pre.objects
        /\ dead_objects = last.pre.dead_objects
        /\ open_ids = last.pre.open_ids

\* 'delete_id' for id 9 was handled while two globals were bound
C35_Witness ==
    /\ Dispatched("Display", 1)
    /\ last.queue[1].args = <<9>>
    /\ 9 \notin DOMAIN last.pre.objects
    /\ Cardinality(DOMAIN objects) >= 4
    /\ Len(handled) > Len(last.pre.handled)

\* C36: once the 'done' of a roundtrip's callback has run and the
\* 'delete_id' for its id has been handled, the id is not in objects: the
\* callbacks of finished roundtrips do not stay in the live table.
C36_CallbackLeavesTable ==
    \A i \in 1..Len(handled) :
        (handled[i].handler = "delete_id" /\ handled[i].args[1] \in fired) =>
            handled[i].args[1] \notin DOMAIN objects

\* two roundtrips have returned, both acknowledgments have been handled, and
\* no callback is left in objects
C36_Witness ==
    /\ pc = "ready"
    /\ Cardinality(fired) >= 2
    /\ \A x \in fired :
          \E i \in 1..Len(handled) :
              handled[i].handler = "delete_id" /\ handled[i].args = <<x>>
    /\ Live("Callback") = {}

\* C37: the header word packed as (size << 16) | opcode, for a size and an
\* opcode in 0..65535, is parsed back by decode to that size and that
\* opcode.
C37_HeaderRoundTrip ==
    last.op = "header" =>
        /\ last.size = last.of.size
        /\ last.opcode = last.of.opcode
        /\ last.id = 1

\* the header of the largest size and the largest opcode has been parsed
C37_Witness ==
    /\ last.op = "header"
    /\ last.of.size = 65535
    /\ last.of.opcode = 65535
    /\ last.size = 65535

====
